---- MODULE Spec2Model ----
(***************************************************************************)
(* Model of the selection-language front end of `seed`:                    *)
(*   parse.rs      tokenizer (lex), TokenStream cursor, Parse trait impls  *)
(*   selection.rs  ParseSelector / ParseSelection and the raw -> Selector  *)
(*                 conversion                                              *)
(*   main.rs       lex -> parse -> convert pipeline                        *)
(*                                                                         *)
(* A string (&str / String) is a sequence of characters, each character a  *)
(* one-character TLA+ string; byte offsets are kept as the source keeps    *)
(* them (char_indices / len_utf8), so a two-byte character has width 2.    *)
(* A TokenStream is the pair (tokens, pos): the slice tokens[pos..].       *)
(***************************************************************************)
EXTENDS Integers, Sequences, FiniteSets, TLC

VARIABLES
    args,        \* the argument strings given to SelectionArgs::new
    tokens,      \* the token sequence a TokenStream runs over
    pos,         \* the caller's TokenStream: the number of tokens consumed
    pos0,        \* pos before the last call of a parse
    op,          \* the last operation called
    res,         \* what the last operation returned
    selections,  \* main's Vec<Selection>
    pc           \* the stage of the run

vars == <<args, tokens, pos, pos0, op, res, selections, pc>>

(***************************************************************************)
(* Bounds of the model.                                                    *)
(***************************************************************************)
\* total number of characters over all argument strings (tokenizer runs)
MaxChars == 4
\* number of argument strings (tokenizer runs)
MaxArgs == 2
\* number of tokens of a token sequence handed to the parsers
MaxToks == 3
\* number of words of a command line handed to main
MaxWords == 4
\* number of tokens of an identifier list handed to Punctuated<Comma, Identifier>
MaxListToks == 6

(***************************************************************************)
(* Characters and strings.                                                 *)
(***************************************************************************)
Letters == {"a", "b", "c", "d", "e", "f", "g", "h", "i", "j", "k", "l", "m",
            "n", "o", "p", "q", "r", "s", "t", "u", "v", "w", "x", "y", "z",
            "é"}

Digits == {"0", "1", "2", "3", "4", "5", "6", "7", "8", "9"}

Whitespace == {" "}

\* char::len_utf8: the only non-ASCII character of the model takes two bytes
len_utf8(ch) == IF ch = "é" THEN 2 ELSE 1

\* char::is_alphanumeric
is_alphanumeric(ch) == ch \in Letters \cup Digits

RECURSIVE ByteLen(_)
\* str::len, in bytes
ByteLen(s) == IF s = <<>> THEN 0 ELSE len_utf8(Head(s)) + ByteLen(Tail(s))

\* byte offset of the k-th character (1-based), as char_indices yields it
ByteOffset(s, k) == ByteLen(SubSeq(s, 1, k - 1))

\* &s[lo..hi] for byte offsets lo, hi: the characters starting in [lo, hi)
Slice(s, lo, hi) ==
    LET idx == {k \in 1..Len(s) : lo <= ByteOffset(s, k) /\ ByteOffset(s, k) < hi}
        first == CHOOSE k \in idx : \A j \in idx : k <= j
    IN  [j \in 1..Cardinality(idx) |-> s[first + j - 1]]

(***************************************************************************)
(* parse.rs: lex                                                           *)
(***************************************************************************)
\* the condition of the `if` in lex's inner loop
IsDelimChar(ch) == ch = "(" \/ ch = ")" \/ ch = "," \/ ch = "/"

\* off-by-one variant: the delimiter stays in the pending run
LexStep_KeepDelim(input, k, st) ==
    LET i == ByteOffset(input, k)
        ch == input[k]
    IN  IF IsDelimChar(ch)
        THEN LET r1 == IF st.last # i
                       THEN Append(st.r, Slice(input, st.last, i))
                       ELSE st.r
             IN  [last |-> i, r |-> Append(r1, Slice(input, i, i + 1))]
        ELSE st

\* variant without the `last != i` guard
LexStep_NoGuard(input, k, st) ==
    LET i == ByteOffset(input, k)
        ch == input[k]
    IN  IF IsDelimChar(ch)
        THEN LET r1 == Append(st.r, Slice(input, st.last, i))
             IN  [last |-> i + len_utf8(ch), r |-> Append(r1, Slice(input, i, i + 1))]
        ELSE st

\* variant that also cuts at whitespace and drops it
LexStep_SplitWs(input, k, st) ==
    LET i == ByteOffset(input, k)
        ch == input[k]
        r1 == IF st.last # i
              THEN Append(st.r, Slice(input, st.last, i))
              ELSE st.r
    IN  IF IsDelimChar(ch)
        THEN [last |-> i + len_utf8(ch), r |-> Append(r1, Slice(input, i, i + 1))]
        ELSE IF ch \in Whitespace
        THEN [last |-> i + len_utf8(ch), r |-> r1]
        ELSE st

\* variant that glues a run to the delimiter that ends it
LexStep_Glue(input, k, st) ==
    LET i == ByteOffset(input, k)
        ch == input[k]
    IN  IF IsDelimChar(ch)
        THEN [last |-> i + len_utf8(ch), r |-> Append(st.r, Slice(input, st.last, i + 1))]
        ELSE st

\* one iteration of `for (i, ch) in input.char_indices()`; st = [last, r]
LexStep(input, k, st) ==
    LET i == ByteOffset(input, k)
        ch == input[k]
    IN  IF IsDelimChar(ch)
        THEN LET r1 == IF st.last # i
                       THEN Append(st.r, Slice(input, st.last, i))
                       ELSE st.r
             IN  [last |-> i + len_utf8(ch), r |-> Append(r1, Slice(input, i, i + 1))]
        ELSE st

\* variant: the text after the last delimiter of an argument is dropped
LexFlush_Never(input, st) == st.r

\* the trailing flush after the inner loop
LexFlush(input, st) ==
    IF st.last < ByteLen(input)
    THEN Append(st.r, Slice(input, st.last, ByteLen(input)))
    ELSE st.r

RECURSIVE LexScan(_, _, _)
\* the inner loop from the k-th character on, then the trailing flush
LexScan(input, k, st) ==
    IF k > Len(input)
    THEN LexFlush(input, st)
    ELSE LexScan(input, k + 1, LexStep(input, k, st))

\* the body of the outer loop for one argument: `let mut last = 0; ...`
LexArg(input, r) == LexScan(input, 1, [last |-> 0, r |-> r])

RECURSIVE LexFrom(_, _, _)
LexFrom(input, n, r) ==
    IF n > Len(input) THEN r ELSE LexFrom(input, n + 1, LexArg(input[n], r))

\* pub fn lex(input: &[String]) -> Vec<&str>
lex(input) == LexFrom(input, 1, <<>>)

(***************************************************************************)
(* parse.rs: TokenStream.  The stream over toks at cursor p is toks[p+1..]. *)
(***************************************************************************)
NoToken == <<"None">>

\* TokenStream::next
TsNext(toks, p) ==
    IF p >= Len(toks)
    THEN [some |-> FALSE, t |-> NoToken, pos |-> p]
    ELSE [some |-> TRUE, t |-> toks[p + 1], pos |-> p + 1]

\* TokenStream::peek
TsPeek(toks, p) ==
    IF p >= Len(toks)
    THEN [some |-> FALSE, t |-> NoToken, pos |-> p]
    ELSE [some |-> TRUE, t |-> toks[p + 1], pos |-> p]

\* variant that consumes the token whether or not the predicate holds
TsNextIf_AlwaysAdvance(toks, p, accepts) ==
    IF p >= Len(toks)
    THEN [some |-> FALSE, t |-> NoToken, pos |-> p]
    ELSE LET t == toks[p + 1]
         IN  IF t \in accepts
             THEN [some |-> TRUE, t |-> t, pos |-> p + 1]
             ELSE [some |-> FALSE, t |-> NoToken, pos |-> p + 1]

\* TokenStream::next_if; accepts is the closure `predicate`, given as the
\* set of the tokens it holds for
TsNextIf(toks, p, accepts) ==
    IF p >= Len(toks)
    THEN [some |-> FALSE, t |-> NoToken, pos |-> p]
    ELSE LET t == toks[p + 1]
         IN  IF t \in accepts
             THEN [some |-> TRUE, t |-> t, pos |-> p + 1]
             ELSE [some |-> FALSE, t |-> NoToken, pos |-> p]

(***************************************************************************)
(* parse.rs: Parse implementations.  A call parse(&mut input) on the       *)
(* stream (toks, p) returns [ok, pos, val]: pos is the caller's cursor     *)
(* after the call, val the parsed value or the ParseError message.         *)
(***************************************************************************)
Ok(p, v) == [ok |-> TRUE, pos |-> p, val |-> v]

Err(p, message) == [ok |-> FALSE, pos |-> p, val |-> message]

\* variant working on the caller's stream instead of a clone
CommaParse_NoClone(toks, p) ==
    LET n == TsNext(toks, p)
    IN  IF ~n.some
        THEN Err(n.pos, "expected comma, got nothing")
        ELSE IF n.t = <<",">>
        THEN Ok(n.pos, "Comma")
        ELSE Err(n.pos, "expected comma, got something else")

\* impl Parse for Comma
CommaParse(toks, p) ==
    LET n == TsNext(toks, p)
    IN  IF ~n.some
        THEN Err(p, "expected comma, got nothing")
        ELSE IF n.t = <<",">>
        THEN Ok(n.pos, "Comma")
        ELSE Err(p, "expected comma, got something else")

\* impl Parse for Period
PeriodParse(toks, p) ==
    LET n == TsNext(toks, p)
    IN  IF ~n.some
        THEN Err(p, "expected comma, got nothing")
        ELSE IF n.t = <<".">>
        THEN Ok(n.pos, "Period")
        ELSE Err(p, "expected comma, got something else")

\* impl Parse for Slash
SlashParse(toks, p) ==
    LET n == TsNext(toks, p)
    IN  IF ~n.some
        THEN Err(p, "expected comma, got nothing")
        ELSE IF n.t = <<"/">>
        THEN Ok(n.pos, "Slash")
        ELSE Err(p, "expected comma, got something else")

\* variant that knows the symbol spelling only
GtParse_SymbolOnly(toks, p) ==
    LET n == TsNext(toks, p)
    IN  IF ~n.some
        THEN Err(p, "expected >, got nothing")
        ELSE IF n.t = <<">">>
        THEN Ok(n.pos, "Gt")
        ELSE Err(p, "expected >, got something else")

\* impl Parse for Gt
GtParse(toks, p) ==
    LET n == TsNext(toks, p)
    IN  IF ~n.some
        THEN Err(p, "expected >, got nothing")
        ELSE IF n.t = <<">">> \/ n.t = <<"g", "t">>
        THEN Ok(n.pos, "Gt")
        ELSE Err(p, "expected >, got something else")

\* impl Parse for Lt
LtParse(toks, p) ==
    LET n == TsNext(toks, p)
    IN  IF ~n.some
        THEN Err(p, "expected <, got nothing")
        ELSE IF n.t = <<"<">> \/ n.t = <<"l", "t">>
        THEN Ok(n.pos, "Lt")
        ELSE Err(p, "expected <, got something else")

\* t.chars().all(|c| c.is_alphanumeric() || c == '_')
IsIdentifierText(t) == \A k \in 1..Len(t) : is_alphanumeric(t[k]) \/ t[k] = "_"

\* variant that reads an exhausted input as the empty token
IdentifierParse_EmptyAtEnd(toks, p) ==
    LET n == TsNext(toks, p)
    IN  IF ~n.some
        THEN Ok(p, [value |-> <<>>])
        ELSE IF IsIdentifierText(n.t)
        THEN Ok(n.pos, [value |-> n.t])
        ELSE Err(p, "expected identifier, got something else")

\* impl Parse for Identifier
IdentifierParse(toks, p) ==
    LET n == TsNext(toks, p)
    IN  IF ~n.some
        THEN Err(p, "expected identifier, got nothing")
        ELSE IF IsIdentifierText(n.t)
        THEN Ok(n.pos, [value |-> n.t])
        ELSE Err(p, "expected identifier, got something else")

(***************************************************************************)
(* selection.rs: ParseSelector                                             *)
(***************************************************************************)
\* variant whose argument run does not stop at a slash
IsArgToken_NoSlash(t) == t # <<",">>

\* variant whose argument run does not stop at a comma
IsArgToken_NoComma(t) == t # <<"/">>

\* the predicate of next_if in ParseSelector::parse
IsArgToken(t) == t # <<",">> /\ t # <<"/">>

RECURSIVE SelectorArgs(_, _, _)
\* while let Some(t) = tt.next_if(..) { args.push(t) }; gives [pos, args]
SelectorArgs(toks, tt, a) ==
    LET n == TsNextIf(toks, tt, {t \in {toks[k] : k \in 1..Len(toks)} : IsArgToken(t)})
    IN  IF n.some
        THEN SelectorArgs(toks, n.pos, Append(a, n.t))
        ELSE [pos |-> n.pos, args |-> a]

\* variant working on the caller's stream instead of a clone
ParseSelectorParse_NoClone(toks, p) ==
    LET n == TsNext(toks, p)
    IN  IF ~n.some
        THEN Err(n.pos, "expected selector")
        ELSE IF n.t = <<"/">>
        THEN Err(n.pos, "expected selector, got /")
        ELSE LET l == SelectorArgs(toks, n.pos, <<>>)
             IN  Ok(l.pos, [selector |-> n.t, args |-> l.args])

\* impl Parse for ParseSelector
ParseSelectorParse(toks, p) ==
    LET n == TsNext(toks, p)
    IN  IF ~n.some
        THEN Err(p, "expected selector")
        ELSE IF n.t = <<"/">>
        THEN Err(p, "expected selector, got /")
        ELSE LET l == SelectorArgs(toks, n.pos, <<>>)
             IN  Ok(l.pos, [selector |-> n.t, args |-> l.args])

(***************************************************************************)
(* parse.rs: Punctuated<P, T>, and selection.rs: ParseSelection.           *)
(* P and T are passed as the names of the types; ParseAs is the dispatch   *)
(* of P::parse / T::parse.  A Punctuated result also records `ends`, the   *)
(* position of tt right after each item pushed to `inner`.                 *)
(***************************************************************************)
RECURSIVE ParseAs(_, _, _)
RECURSIVE PunctuatedLoop(_, _, _, _, _, _)

\* the `loop` of Punctuated::parse, from cursor tt on; gives [pos, inner, ends]
PunctuatedLoop(P, T, toks, tt, inner, ends) ==
    LET t == ParseAs(T, toks, tt)
    IN  IF t.ok
        THEN LET ignore == ParseAs(P, toks, t.pos)
             IN  PunctuatedLoop(P, T, toks, ignore.pos,
                                Append(inner, t.val), Append(ends, t.pos))
        ELSE [pos |-> t.pos, inner |-> inner, ends |-> ends]

\* variant that fails when no item was parsed
PunctuatedParse_NonEmpty(P, T, toks, p) ==
    LET ignore == ParseAs(P, toks, p)
        l == PunctuatedLoop(P, T, toks, ignore.pos, <<>>, <<>>)
    IN  IF l.inner = <<>>
        THEN [ok |-> FALSE, pos |-> p, val |-> "expected item", ends |-> <<>>]
        ELSE [ok |-> TRUE, pos |-> l.pos, val |-> l.inner, ends |-> l.ends]

\* variant without the attempt at one leading delimiter
PunctuatedParse_NoLeading(P, T, toks, p) ==
    LET l == PunctuatedLoop(P, T, toks, p, <<>>, <<>>)
    IN  [ok |-> TRUE, pos |-> l.pos, val |-> l.inner, ends |-> l.ends]

\* impl Parse for Punctuated<P, T>
PunctuatedParse(P, T, toks, p) ==
    LET ignore == ParseAs(P, toks, p)
        l == PunctuatedLoop(P, T, toks, ignore.pos, <<>>, <<>>)
    IN  [ok |-> TRUE, pos |-> l.pos, val |-> l.inner, ends |-> l.ends]

\* variant that refuses a slash or a comma as the table name
ParseSelectionParse_TableChecked(toks, p) ==
    LET n == TsNext(toks, p)
    IN  IF ~n.some
        THEN Err(p, "expected table name")
        ELSE IF n.t = <<"/">> \/ n.t = <<",">>
        THEN Err(p, "expected table name, got a delimiter")
        ELSE LET selectors == PunctuatedParse("Comma", "ParseSelector", toks, n.pos)
             IN  IF ~selectors.ok
                 THEN Err(p, selectors.val)
                 ELSE Ok(selectors.pos, [table |-> n.t, selectors |-> selectors.val])

\* impl Parse for ParseSelection
ParseSelectionParse(toks, p) ==
    LET n == TsNext(toks, p)
    IN  IF ~n.some
        THEN Err(p, "expected table name")
        ELSE LET selectors == PunctuatedParse("Comma", "ParseSelector", toks, n.pos)
             IN  IF ~selectors.ok
                 THEN Err(p, selectors.val)
                 ELSE Ok(selectors.pos, [table |-> n.t, selectors |-> selectors.val])

\* P::parse / T::parse for the type named kind
ParseAs(kind, toks, p) ==
    CASE kind = "Comma" -> CommaParse(toks, p)
      [] kind = "Period" -> PeriodParse(toks, p)
      [] kind = "Slash" -> SlashParse(toks, p)
      [] kind = "Gt" -> GtParse(toks, p)
      [] kind = "Lt" -> LtParse(toks, p)
      [] kind = "Identifier" -> IdentifierParse(toks, p)
      [] kind = "ParseSelector" -> ParseSelectorParse(toks, p)
      [] kind = "ParseSelection" -> ParseSelectionParse(toks, p)

(***************************************************************************)
(* selection.rs: raw selector -> Selector, raw selection -> Selection.     *)
(* A conversion returns [panic, val]: panic is the unwrap() of a failed    *)
(* str::parse::<usize>, which unwinds out of main.                         *)
(***************************************************************************)
DigitValue(ch) ==
    CASE ch = "0" -> 0 [] ch = "1" -> 1 [] ch = "2" -> 2 [] ch = "3" -> 3
      [] ch = "4" -> 4 [] ch = "5" -> 5 [] ch = "6" -> 6 [] ch = "7" -> 7
      [] ch = "8" -> 8 [] ch = "9" -> 9

RECURSIVE DecimalValue(_)
DecimalValue(d) ==
    IF d = <<>>
    THEN 0
    ELSE 10 * DecimalValue(SubSeq(d, 1, Len(d) - 1)) + DigitValue(d[Len(d)])

\* str::parse::<usize>: decimal digits after an optional "+"; the tokens of
\* the model are far below usize::MAX, so the overflow error is not reached
ParseUsize(t) ==
    LET d == IF t # <<>> /\ t[1] = "+" THEN Tail(t) ELSE t
    IN  IF d = <<>> \/ \E k \in 1..Len(d) : d[k] \notin Digits
        THEN [ok |-> FALSE, n |-> 0]
        ELSE [ok |-> TRUE, n |-> DecimalValue(d)]

Value(v) == [panic |-> FALSE, val |-> v]

Panic == [panic |-> TRUE, val |-> "called Result::unwrap() on an Err value"]

\* Selector::X(p.args[0].parse().unwrap())
Counted(tag, t) ==
    LET n == ParseUsize(t)
    IN  IF n.ok THEN Value([tag |-> tag, n |-> n.n]) ELSE Panic

\* p.args.get(1).map(|&s| s == "desc").unwrap_or(true)
SortDirection_DefaultDesc(a) == IF Len(a) >= 2 THEN a[2] = <<"d", "e", "s", "c">> ELSE TRUE

\* p.args.get(1).map(|&s| s == "desc").unwrap_or(false)
SortDirection(a) == IF Len(a) >= 2 THEN a[2] = <<"d", "e", "s", "c">> ELSE FALSE

\* impl From<ParseSelector> for Selector
SelectorFrom(p) ==
    IF p.args = <<>>
    THEN Value([tag |-> "Id", s |-> p.selector])
    ELSE IF p.selector = <<"r", "a", "n", "d">>
    THEN Counted("Rand", p.args[1])
    ELSE IF p.selector = <<"l", "a", "t", "e", "s", "t">>
    THEN Counted("Latest", p.args[1])
    ELSE IF p.selector = <<"l", "i", "m", "i", "t">>
    THEN Counted("Limit", p.args[1])
    ELSE IF p.selector = <<"s", "o", "r", "t">>
    THEN Value([tag |-> "Sort", column |-> p.args[1], descending |-> SortDirection(p.args)])
    ELSE Value([tag |-> "Expr"])

\* impl From<ParseSelection> for Selection
SelectionFrom(p) ==
    LET c == [j \in 1..Len(p.selectors) |-> SelectorFrom(p.selectors[j])]
    IN  IF \E j \in 1..Len(c) : c[j].panic
        THEN Panic
        ELSE Value([table |-> p.table,
                    selectors |-> [j \in 1..Len(c) |-> c[j].val]])

\* selections.into_vec().into_iter().map(Into::into).collect()
SelectionsFrom(ps) ==
    LET c == [i \in 1..Len(ps) |-> SelectionFrom(ps[i])]
    IN  IF \E i \in 1..Len(c) : c[i].panic
        THEN Panic
        ELSE Value([i \in 1..Len(c) |-> c[i].val])

(***************************************************************************)
(* Inputs of the tokenizer runs.                                           *)
(***************************************************************************)
Alphabet == {"a", "é", " ", ",", "/"}

StringsOfLen(n) == [1..n -> Alphabet]

StringsUpTo(n) == UNION {StringsOfLen(k) : k \in 0..n}

\* the list of n strings cut out of the string f at the offsets cut[1..n-1]
CutAt(f, n, cut) ==
    [i \in 1..n |->
        SubSeq(f, (IF i = 1 THEN 0 ELSE cut[i - 1]) + 1,
                  IF i = n THEN Len(f) ELSE cut[i])]

(***************************************************************************)
(* Tokenizer runs: SelectionArgs::new on an argument list, and the         *)
(* tokenizer applied again to its own output.                              *)
(***************************************************************************)
\* every list of at most MaxArgs strings with at most MaxChars characters in all
InitLex ==
    /\ \E f \in StringsUpTo(MaxChars) : \E n \in 0..MaxArgs :
          \E cut \in [1..(n - 1) -> 0..Len(f)] :
            /\ n = 0 => f = <<>>
            /\ \A i \in 1..(n - 2) : cut[i] <= cut[i + 1]
            /\ args = CutAt(f, n, cut)
    /\ tokens = <<>>
    /\ pos = 0
    /\ pos0 = 0
    /\ op = "none"
    /\ res = <<>>
    /\ selections = <<>>
    /\ pc = "args"

\* SelectionArgs::new: tokens = lex(&args)
SelectionArgsNew ==
    /\ pc = "args"
    /\ tokens' = lex(args)
    /\ pc' = "lexed"
    /\ op' = "lex"
    /\ UNCHANGED <<args, pos, pos0, res, selections>>

\* lex over the emitted tokens, each token its own argument
Relex ==
    /\ pc = "lexed"
    /\ res' = lex(tokens)
    /\ pc' = "relexed"
    /\ op' = "relex"
    /\ UNCHANGED <<args, tokens, pos, pos0, selections>>

NextLex == SelectionArgsNew \/ Relex

SpecLex == InitLex /\ [][NextLex]_vars

(***************************************************************************)
(* Parser runs: a TokenStream over any token sequence, moved to any cursor *)
(* position with next(), then handed to one parse call.                    *)
(***************************************************************************)
PrimTokens ==
    {<<",">>, <<"/">>, <<".">>, <<">">>, <<"g", "t">>, <<"<">>, <<"l", "t">>,
     <<"a", "_", "1">>, <<"(">>}

SeqsUpTo(S, n) == UNION {[1..k -> S] : k \in 0..n}

\* TokenStream::new(tokens)
Init ==
    /\ tokens \in SeqsUpTo(PrimTokens, MaxToks)
    /\ args = <<>>
    /\ pos = 0
    /\ pos0 = 0
    /\ op = "none"
    /\ res = <<>>
    /\ selections = <<>>
    /\ pc = "cursor"

\* input.next() by the owner of the stream
Advance ==
    /\ pc = "cursor"
    /\ LET n == TsNext(tokens, pos)
       IN  /\ pos' = n.pos
           /\ res' = n
    /\ pos0' = pos
    /\ op' = "next"
    /\ UNCHANGED <<args, tokens, selections, pc>>

\* input.peek() by the owner of the stream
Peek ==
    /\ pc = "cursor"
    /\ res' = TsPeek(tokens, pos)
    /\ pos' = TsPeek(tokens, pos).pos
    /\ pos0' = pos
    /\ op' = "peek"
    /\ UNCHANGED <<args, tokens, selections, pc>>

\* the closures handed to next_if: |_| false, |_| true, |t| t == ",", and
\* the one of ParseSelector::parse
Predicates ==
    {{}, PrimTokens, {<<",">>}, {t \in PrimTokens : IsArgToken(t)}}

\* input.next_if(predicate) by the owner of the stream
NextIf ==
    /\ pc = "cursor"
    /\ \E accepts \in Predicates :
          LET n == TsNextIf(tokens, pos, accepts)
          IN  /\ pos' = n.pos
              /\ res' = [some |-> n.some, t |-> n.t, pos |-> n.pos, accepts |-> accepts]
    /\ pos0' = pos
    /\ op' = "next_if"
    /\ UNCHANGED <<args, tokens, selections, pc>>

\* one call X::parse(&mut input), returning r
Call(name, r) ==
    /\ pc = "cursor"
    /\ pos0' = pos
    /\ pos' = r.pos
    /\ res' = r
    /\ op' = name
    /\ pc' = "called"
    /\ UNCHANGED <<args, tokens, selections>>

CallComma == Call("Comma", ParseAs("Comma", tokens, pos))

CallPeriod == Call("Period", ParseAs("Period", tokens, pos))

CallSlash == Call("Slash", ParseAs("Slash", tokens, pos))

CallGt == Call("Gt", ParseAs("Gt", tokens, pos))

CallLt == Call("Lt", ParseAs("Lt", tokens, pos))

CallIdentifier == Call("Identifier", ParseAs("Identifier", tokens, pos))

CallParseSelector == Call("ParseSelector", ParseAs("ParseSelector", tokens, pos))

CallParseSelection == Call("ParseSelection", ParseAs("ParseSelection", tokens, pos))

\* Punctuated::<Comma, Identifier>::parse(&mut input)
CallPunctuatedIdentifiers ==
    Call("Punctuated<Comma,Identifier>",
         PunctuatedParse("Comma", "Identifier", tokens, pos))

\* Punctuated::<Comma, ParseSelector>::parse(&mut input)
CallPunctuatedSelectors ==
    Call("Punctuated<Comma,ParseSelector>",
         PunctuatedParse("Comma", "ParseSelector", tokens, pos))

\* Punctuated::<Slash, ParseSelection>::parse(&mut input)
CallPunctuatedSelections ==
    Call("Punctuated<Slash,ParseSelection>",
         PunctuatedParse("Slash", "ParseSelection", tokens, pos))

Next ==
    \/ Advance
    \/ Peek
    \/ NextIf
    \/ CallComma
    \/ CallPeriod
    \/ CallSlash
    \/ CallGt
    \/ CallLt
    \/ CallIdentifier
    \/ CallParseSelector
    \/ CallParseSelection
    \/ CallPunctuatedIdentifiers
    \/ CallPunctuatedSelectors
    \/ CallPunctuatedSelections

Spec == Init /\ [][Next]_vars

(***************************************************************************)
(* Punctuated::parse step by step: the leading delimiter, then one action  *)
(* per loop iteration.  While pc = "loop", res holds the locals of the     *)
(* call: P, T, the clone tt, inner and ends; the caller's input (pos) is   *)
(* assigned when the loop breaks.                                          *)
(***************************************************************************)
\* let mut tt = input.clone(); let _ignore = P::parse(&mut tt); inner = Vec::new()
EnterLoop(name, P, T) ==
    /\ pc = "cursor"
    /\ pc' = "loop"
    /\ op' = name
    /\ pos0' = pos
    /\ res' = [P |-> P, T |-> T, tt |-> ParseAs(P, tokens, pos).pos,
               inner |-> <<>>, ends |-> <<>>]
    /\ UNCHANGED <<args, tokens, pos, selections>>

EnterIdentifiers == EnterLoop("Punctuated<Comma,Identifier>", "Comma", "Identifier")

EnterSelectors == EnterLoop("Punctuated<Comma,ParseSelector>", "Comma", "ParseSelector")

EnterSelections == EnterLoop("Punctuated<Slash,ParseSelection>", "Slash", "ParseSelection")

\* an iteration whose T::parse is Ok: push the item, try one delimiter
LoopItem ==
    /\ pc = "loop"
    /\ LET t == ParseAs(res.T, tokens, res.tt)
       IN  /\ t.ok
           /\ res' = [res EXCEPT !.tt = ParseAs(res.P, tokens, t.pos).pos,
                                 !.inner = Append(@, t.val),
                                 !.ends = Append(@, t.pos)]
    /\ UNCHANGED <<args, tokens, pos, pos0, op, selections, pc>>

\* the iteration whose T::parse is Err: break; *input = tt; Ok(Self::new(inner))
LoopBreak ==
    /\ pc = "loop"
    /\ LET t == ParseAs(res.T, tokens, res.tt)
       IN  /\ ~t.ok
           /\ pos' = t.pos
           /\ res' = [ok |-> TRUE, pos |-> t.pos, val |-> res.inner, ends |-> res.ends]
    /\ pc' = "called"
    /\ UNCHANGED <<args, tokens, pos0, op, selections>>

NextLoop ==
    \/ Advance
    \/ EnterIdentifiers
    \/ EnterSelectors
    \/ EnterSelections
    \/ LoopItem
    \/ LoopBreak

SpecLoop == Init /\ [][NextLoop]_vars

(***************************************************************************)
(* Identifier lists: Punctuated::<Comma, Identifier>::parse on a fresh     *)
(* TokenStream, as in test_delimited.                                      *)
(***************************************************************************)
ListTokens == {<<",">>, <<"g", "t">>, <<"l", "t">>, <<"a", "_", "1">>, <<"(">>}

\* TokenStream::new(tokens)
InitList ==
    /\ tokens \in SeqsUpTo(ListTokens, MaxListToks)
    /\ args = <<>>
    /\ pos = 0
    /\ pos0 = 0
    /\ op = "none"
    /\ res = <<>>
    /\ selections = <<>>
    /\ pc = "cursor"

NextList == CallPunctuatedIdentifiers

SpecList == InitList /\ [][NextList]_vars

(***************************************************************************)
(* main.rs: the command line is tokenized, parsed and converted.           *)
(***************************************************************************)
Words ==
    {<<",">>, <<"/">>, <<"o", "r", "g">>, <<"r", "a", "n", "d">>,
     <<"l", "a", "t", "e", "s", "t">>, <<"l", "i", "m", "i", "t">>,
     <<"s", "o", "r", "t">>, <<"d", "e", "s", "c">>, <<"1", "0">>}

\* Args::parse(): the words of the command line
InitMain ==
    /\ args \in SeqsUpTo(Words, MaxWords)
    /\ tokens = <<>>
    /\ pos = 0
    /\ pos0 = 0
    /\ op = "none"
    /\ res = <<>>
    /\ selections = <<>>
    /\ pc = "main"

\* if args.args.is_empty() { bail!(..) }; let args = SelectionArgs::new(args.args)
MainLex ==
    /\ pc = "main"
    /\ IF args = <<>>
       THEN /\ pc' = "bailed"
            /\ tokens' = tokens
       ELSE /\ pc' = "tokens"
            /\ tokens' = lex(args)
    /\ op' = "lex"
    /\ UNCHANGED <<args, pos, pos0, res, selections>>

\* Punctuated::<Slash, ParseSelection>::parse(&mut args.token_stream())?
MainParse ==
    /\ pc = "tokens"
    /\ LET r == PunctuatedParse("Slash", "ParseSelection", tokens, 0)
       IN  /\ res' = r
           /\ pos' = r.pos
           /\ pc' = IF r.ok THEN "parsed" ELSE "failed"
    /\ pos0' = 0
    /\ op' = "Punctuated<Slash,ParseSelection>"
    /\ UNCHANGED <<args, tokens, selections>>

\* let selections: Vec<Selection> = ...map(Into::into).collect()
MainConvert ==
    /\ pc = "parsed"
    /\ LET c == SelectionsFrom(res.val)
       IN  IF c.panic
           THEN /\ pc' = "panicked"
                /\ selections' = selections
           ELSE /\ pc' = "done"
                /\ selections' = c.val
    /\ op' = "into"
    /\ UNCHANGED <<args, tokens, pos, pos0, res>>

NextMain == MainLex \/ MainParse \/ MainConvert

SpecMain == InitMain /\ [][NextMain]_vars

(***************************************************************************)
(* Properties of the tokenizer (checked under SpecLex).                    *)
(***************************************************************************)
RECURSIVE Flatten(_)
\* the concatenation of a list of strings
Flatten(ss) == IF ss = <<>> THEN <<>> ELSE Head(ss) \o Flatten(Tail(ss))

HasChar(s, set) == \E k \in 1..Len(s) : s[k] \in set

DelimChars == {"(", ")", ",", "/"}

IsDelimToken(t) == Len(t) = 1 /\ t[1] \in DelimChars

IsRunToken(t) == Len(t) >= 1 /\ ~HasChar(t, DelimChars)

\* toks is the split of the one string s: its tokens spell s in order, each is
\* one delimiter character or a delimiter-free run, and no two runs are adjacent
IsSplitOf(toks, s) ==
    /\ Flatten(toks) = s
    /\ \A i \in 1..Len(toks) : IsDelimToken(toks[i]) \/ IsRunToken(toks[i])
    /\ \A i \in 1..(Len(toks) - 1) : ~(IsRunToken(toks[i]) /\ IsRunToken(toks[i + 1]))

RECURSIVE SplitsArgs(_, _)
\* toks is the splits of the strings of as, one after the other
SplitsArgs(toks, as) ==
    IF as = <<>>
    THEN toks = <<>>
    ELSE \E j \in 0..Len(toks) :
            /\ IsSplitOf(SubSeq(toks, 1, j), Head(as))
            /\ SplitsArgs(SubSeq(toks, j + 1, Len(toks)), Tail(as))

OnlyDelims(as) == \A n \in 1..Len(as) : \A k \in 1..Len(as[n]) : as[n][k] \in DelimChars

\* C7: lex turns every delimiter character into a one-character token of its
\* own and every maximal run of other characters into exactly one token, in
\* left-to-right order; arguments made of n delimiter characters give n tokens.
C7_LexSplits ==
    pc = "lexed" =>
        /\ SplitsArgs(tokens, args)
        /\ OnlyDelims(args) => Len(tokens) = Len(Flatten(args))

C7_Witness ==
    /\ pc = "lexed"
    /\ args = << <<"a", "é", ",", "a">> >>
    /\ tokens = << <<"a", "é">>, <<",">>, <<"a">> >>

\* C8: no token produced by lex is the empty string, whatever the arguments
\* (empty arguments, leading or trailing delimiters, adjacent delimiters).
C8_NoEmptyToken == pc = "lexed" => \A i \in 1..Len(tokens) : tokens[i] # <<>>

C8_Witness ==
    /\ pc = "lexed"
    /\ args = << <<>>, <<",", "/", "a", ",">> >>
    /\ Len(tokens) = 4

\* C9 as stated: no token produced by lex contains a whitespace character,
\* for any list of argument strings.
C9_Original ==
    pc = "lexed" => \A i \in 1..Len(tokens) : ~HasChar(tokens[i], Whitespace)

\* C9 amended: lex neither cuts at nor drops whitespace: some token contains a
\* whitespace character exactly when some argument string contains one, so
\* tokens are free of whitespace only for arguments free of whitespace.
C9_WhitespaceKept ==
    pc = "lexed" =>
        ((\E i \in 1..Len(tokens) : HasChar(tokens[i], Whitespace))
            <=> (\E n \in 1..Len(args) : HasChar(args[n], Whitespace)))

C9_Witness ==
    /\ pc = "lexed"
    /\ args = << <<"a", " ", "a", ",">> >>
    /\ tokens = << <<"a", " ", "a">>, <<",">> >>

\* C10: tokenizing is idempotent: lex over the tokens of lex(A), each token
\* taken as its own argument, returns exactly lex(A).
C10_LexIdempotent == pc = "relexed" => res = tokens

C10_Witness ==
    /\ pc = "relexed"
    /\ tokens = << <<"a">>, <<",">>, <<"/">>, <<" ">> >>
    /\ res = tokens

(***************************************************************************)
(* Properties of the parsers (checked under Spec).                         *)
(***************************************************************************)
FallibleParsers ==
    {"Comma", "Slash", "Period", "Gt", "Lt", "Identifier", "ParseSelector",
     "ParseSelection"}

PunctuatedCalls ==
    {"Punctuated<Comma,Identifier>", "Punctuated<Comma,ParseSelector>",
     "Punctuated<Slash,ParseSelection>"}

\* the delimiter token and the item type of a Punctuated instantiation
DelimiterOf(name) == IF name = "Punctuated<Slash,ParseSelection>" THEN <<"/">> ELSE <<",">>

ItemOf(name) ==
    CASE name = "Punctuated<Comma,Identifier>" -> "Identifier"
      [] name = "Punctuated<Comma,ParseSelector>" -> "ParseSelector"
      [] name = "Punctuated<Slash,ParseSelection>" -> "ParseSelection"

\* C1: when the parse of Comma, Slash, Period, Gt, Lt, Identifier,
\* ParseSelector or ParseSelection returns an error, the caller's cursor is
\* where it was before the call, for every token sequence and cursor position.
C1_NoConsumeOnFailure ==
    (pc = "called" /\ op \in FallibleParsers /\ ~res.ok) => pos = pos0

C1_Witness ==
    /\ pc = "called"
    /\ op = "ParseSelector"
    /\ ~res.ok
    /\ pos0 = 1
    /\ Len(tokens) = 3
    /\ tokens[2] = <<"/">>

\* C2: Punctuated::parse never returns an error: for every token sequence and
\* each instantiation used it returns Ok with a list of zero or more items.
C2_PunctuatedNeverFails ==
    (pc = "called" /\ op \in PunctuatedCalls) =>
        /\ res.ok
        /\ DOMAIN res.val = 1..Len(res.val)

C2_Witness ==
    /\ pc = "called"
    /\ op = "Punctuated<Comma,Identifier>"
    /\ pos0 = 0
    /\ tokens = << <<"(">>, <<"a", "_", "1">> >>
    /\ res.ok
    /\ res.val = <<>>

\* the cursor just past the last item parsed by the last Punctuated call
LastItemEnd == IF res.ends = <<>> THEN pos0 ELSE res.ends[Len(res.ends)]

\* C3 as stated: after Punctuated::parse the cursor sits exactly just past
\* the last successfully parsed item.
C3_Original ==
    (pc = "called" /\ op \in PunctuatedCalls /\ res.ends # <<>>) => pos = LastItemEnd

\* C3 amended: after Punctuated::parse the cursor sits just past the last
\* successfully parsed item or just past the one delimiter consumed after it
\* (with no item: at the start or just past the one leading delimiter), and
\* an item does not parse there: the cursor is never past a token that
\* failed to match as an item.
C3_CursorAfterPunctuated ==
    (pc = "called" /\ op \in PunctuatedCalls) =>
        /\ \/ pos = LastItemEnd
           \/ pos = LastItemEnd + 1 /\ tokens[pos] = DelimiterOf(op)
        /\ ~ParseAs(ItemOf(op), tokens, pos).ok

C3_Witness ==
    /\ pc = "called"
    /\ op = "Punctuated<Comma,Identifier>"
    /\ tokens = << <<"a", "_", "1">>, <<",">>, <<"(">> >>
    /\ pos0 = 0
    /\ res.ends = <<1>>
    /\ pos = 2

(***************************************************************************)
(* Properties of the conversion and of the whole parse (under SpecMain).   *)
(***************************************************************************)
RAND == <<"r", "a", "n", "d">>

LATEST == <<"l", "a", "t", "e", "s", "t">>

LIMIT == <<"l", "i", "m", "i", "t">>

SORT == <<"s", "o", "r", "t">>

DESC == <<"d", "e", "s", "c">>

\* the text is not a non-negative integer
IsMalformedCount(t) == t = <<>> \/ \E k \in 1..Len(t) : t[k] \notin Digits

\* some raw selector of the parsed selections is rand, latest or limit with a
\* malformed arg[0]
HasMalformedCount(ps) ==
    \E i \in 1..Len(ps) : \E j \in 1..Len(ps[i].selectors) :
        LET p == ps[i].selectors[j]
        IN  /\ p.selector \in {RAND, LATEST, LIMIT}
            /\ p.args # <<>>
            /\ IsMalformedCount(p.args[1])

\* C4: a malformed count argument of rand, latest or limit ends the run with
\* a ParseError like every other grammar error; converting never aborts the
\* process.
C4_MalformedCountIsParseError ==
    /\ pc # "panicked"
    /\ pc = "done" => ~HasMalformedCount(res.val)

\* the Selector the mapping table gives for the raw selector p, as far as the
\* table says; the one count of the command lines of the model is "10"
TableSays(p, v) ==
    /\ p.args = <<>> => v = [tag |-> "Id", s |-> p.selector]
    /\ (p.args # <<>> /\ p.args[1] = <<"1", "0">>) =>
          /\ p.selector = RAND => v = [tag |-> "Rand", n |-> 10]
          /\ p.selector = LATEST => v = [tag |-> "Latest", n |-> 10]
          /\ p.selector = LIMIT => v = [tag |-> "Limit", n |-> 10]
    /\ (p.args # <<>> /\ p.selector = SORT) =>
          /\ v.tag = "Sort"
          /\ v.column = p.args[1]
          /\ v.descending <=> (Len(p.args) >= 2 /\ p.args[2] = DESC)
    /\ (p.args # <<>> /\ p.selector \notin {RAND, LATEST, LIMIT, SORT}) =>
          v = [tag |-> "Expr"]

\* C5: the conversion follows the mapping table: no arguments give
\* Id(keyword) whatever the keyword; rand/latest/limit with the count N give
\* Rand(N)/Latest(N)/Limit(N); sort gives Sort(arg[0], descending) with
\* descending true exactly when arg[1] exists and is "desc"; any other
\* keyword with an argument gives Expr.
C5_MappingTable ==
    pc = "done" =>
        /\ Len(selections) = Len(res.val)
        /\ \A i \in 1..Len(selections) :
              /\ selections[i].table = res.val[i].table
              /\ Len(selections[i].selectors) = Len(res.val[i].selectors)
              /\ \A j \in 1..Len(selections[i].selectors) :
                    TableSays(res.val[i].selectors[j], selections[i].selectors[j])

C5_Witness ==
    /\ pc = "done"
    /\ args = <<SORT, SORT, LIMIT, <<"1", "0">> >>
    /\ selections = << [table |-> SORT,
                        selectors |-> << [tag |-> "Sort", column |-> LIMIT,
                                          descending |-> FALSE] >>] >>

RECURSIVE SplitOn(_, _)
\* the segments of the token list toks between the tokens equal to sep
SplitOn(toks, sep) ==
    IF \A k \in 1..Len(toks) : toks[k] # sep
    THEN <<toks>>
    ELSE LET k == CHOOSE k \in 1..Len(toks) :
                    toks[k] = sep /\ \A m \in 1..(k - 1) : toks[m] # sep
         IN  <<SubSeq(toks, 1, k - 1)>> \o SplitOn(SubSeq(toks, k + 1, Len(toks)), sep)

\* a clause: a table token that is no delimiter, then nothing or selectors
\* (a keyword and its arguments each) separated by single commas
IsClause(c) ==
    /\ c # <<>>
    /\ ~IsDelimToken(c[1])
    /\ Len(c) > 1 => \A sel \in {SplitOn(Tail(c), <<",">>)[j] :
                                   j \in 1..Len(SplitOn(Tail(c), <<",">>))} : sel # <<>>

\* clauses separated by single slashes
IsClauseList(toks) ==
    \A i \in 1..Len(SplitOn(toks, <<"/">>)) : IsClause(SplitOn(toks, <<"/">>)[i])

\* the raw selection a clause spells
ClauseSelection(c) ==
    LET sels == IF Len(c) = 1 THEN <<>> ELSE SplitOn(Tail(c), <<",">>)
    IN  [table |-> c[1],
         selectors |-> [j \in 1..Len(sels) |->
                          [selector |-> sels[j][1], args |-> Tail(sels[j])]]]

\* C6: on k clauses separated by single slashes the top-level parse yields
\* exactly k selections in input order, the i-th with the i-th clause's table
\* name and that clause's selectors in their input order.
C6_ClausesInOrder ==
    (pc \in {"parsed", "done"} /\ IsClauseList(tokens)) =>
        LET clauses == SplitOn(tokens, <<"/">>)
        IN  /\ res.ok
            /\ res.val = [i \in 1..Len(clauses) |-> ClauseSelection(clauses[i])]
            /\ pc = "done" =>
                  /\ Len(selections) = Len(clauses)
                  /\ \A i \in 1..Len(clauses) :
                        /\ selections[i].table = clauses[i][1]
                        /\ Len(selections[i].selectors)
                              = Len(ClauseSelection(clauses[i]).selectors)

C6_Witness ==
    /\ pc = "done"
    /\ tokens = << <<"o", "r", "g">>, <<"1", "0">>, <<"/">>, LATEST >>
    /\ Len(selections) = 2
    /\ selections[1].selectors = << [tag |-> "Id", s |-> <<"1", "0">>] >>
    /\ selections[2] = [table |-> LATEST, selectors |-> <<>>]

(***************************************************************************)
(* Properties of identifier lists (checked under SpecList).                *)
(***************************************************************************)
IdChars == Letters \cup Digits \cup {"_"}

IsIdToken(t) == \A k \in 1..Len(t) : t[k] \in IdChars

\* identifiers at the odd places, commas at the even places, an identifier last
IsIdList(toks) ==
    /\ Len(toks) % 2 = 1
    /\ \A k \in 1..Len(toks) :
          IF k % 2 = 1 THEN IsIdToken(toks[k]) ELSE toks[k] = <<",">>

\* the identifiers of an identifier list, in order
IdsOf(toks) == [j \in 1..((Len(toks) + 1) \div 2) |-> [value |-> toks[2 * j - 1]]]

\* the token list without its one leading comma, if it has one
WithoutLeadingComma(toks) ==
    IF toks # <<>> /\ toks[1] = <<",">> THEN Tail(toks) ELSE toks

\* C11: Punctuated<Comma, Identifier> on a comma-separated list of
\* identifiers yields those identifiers in input order, and the same list
\* whether or not the input starts with one leading comma.
C11_IdentifierList ==
    (pc = "called" /\ IsIdList(WithoutLeadingComma(tokens))) =>
        /\ res.ok
        /\ res.val = IdsOf(WithoutLeadingComma(tokens))
        /\ res.val = PunctuatedParse("Comma", "Identifier",
                                     WithoutLeadingComma(tokens), 0).val
        /\ pos = Len(tokens)

C11_Witness ==
    /\ pc = "called"
    /\ tokens = << <<",">>, <<"a", "_", "1">>, <<",">>, <<"g", "t">>, <<",">>, <<"l", "t">> >>
    /\ res.val = << [value |-> <<"a", "_", "1">>], [value |-> <<"g", "t">>],
                    [value |-> <<"l", "t">>] >>

(***************************************************************************)
(* More properties of the cursor and the parsers (checked under Spec).     *)
(***************************************************************************)
\* C12: the argument run of a raw selector stops at the next comma, the next
\* slash or the end of input: no argument is "," or "/", and right after a
\* successful ParseSelector::parse the next token is ",", "/" or there is none.
C12_ArgumentRunStops ==
    (pc = "called" /\ op = "ParseSelector" /\ res.ok) =>
        /\ \A k \in 1..Len(res.val.args) : res.val.args[k] \notin {<<",">>, <<"/">>}
        /\ res.val.args = SubSeq(tokens, pos0 + 2, pos)
        /\ pos = Len(tokens) \/ tokens[pos + 1] \in {<<",">>, <<"/">>}

C12_Witness ==
    /\ pc = "called"
    /\ op = "ParseSelector"
    /\ tokens = << <<"a", "_", "1">>, <<"g", "t">>, <<",">> >>
    /\ pos0 = 0
    /\ res.ok
    /\ res.val.args = << <<"g", "t">> >>
    /\ pos = 2

\* C13: next_if returns the next token and advances the cursor by exactly one
\* when the predicate holds for the next token; when it does not hold or the
\* input is exhausted it returns nothing and leaves the cursor where it was.
C13_NextIf ==
    (pc = "cursor" /\ op = "next_if") =>
        IF pos0 < Len(tokens) /\ tokens[pos0 + 1] \in res.accepts
        THEN res.some /\ res.t = tokens[pos0 + 1] /\ pos = pos0 + 1
        ELSE ~res.some /\ pos = pos0

C13_Witness ==
    /\ pc = "cursor"
    /\ op = "next_if"
    /\ tokens = << <<"a", "_", "1">>, <<"/">> >>
    /\ pos0 = 1
    /\ res.accepts = {t \in PrimTokens : IsArgToken(t)}
    /\ ~res.some
    /\ pos = 1

PrimitiveMatchers == {"Comma", "Slash", "Period", "Gt", "Lt", "Identifier"}

\* the spellings a primitive matcher accepts
AcceptedSpelling(name, t) ==
    CASE name = "Comma" -> t = <<",">>
      [] name = "Slash" -> t = <<"/">>
      [] name = "Period" -> t = <<".">>
      [] name = "Gt" -> t \in {<<">">>, <<"g", "t">>}
      [] name = "Lt" -> t \in {<<"<">>, <<"l", "t">>}
      [] name = "Identifier" -> IsIdToken(t)

\* C14: a primitive matcher succeeds exactly when a next token exists and has
\* an accepted spelling (an identifier being any token of alphanumeric
\* characters and underscores, reserved words included), and on success it
\* advances the cursor by exactly one token.
C14_PrimitiveMatchers ==
    (pc = "called" /\ op \in PrimitiveMatchers) =>
        /\ res.ok <=> (pos0 < Len(tokens) /\ AcceptedSpelling(op, tokens[pos0 + 1]))
        /\ res.ok => pos = pos0 + 1

C14_Witness ==
    /\ pc = "called"
    /\ op = "Identifier"
    /\ pos0 = 1
    /\ tokens = << <<"(">>, <<"g", "t">>, <<"a", "_", "1">> >>
    /\ res.ok
    /\ res.val = [value |-> <<"g", "t">>]
    /\ pos = 2

(***************************************************************************)
(* More properties of the whole parse (checked under SpecMain).            *)
(***************************************************************************)
\* the tokens of one raw selector: its keyword, then its arguments
SelectorTokens(p) == <<p.selector>> \o p.args

RECURSIVE SelectorsTokens(_)
SelectorsTokens(ps) ==
    IF ps = <<>> THEN <<>> ELSE SelectorTokens(Head(ps)) \o SelectorsTokens(Tail(ps))

RECURSIVE SelectionsTokens(_)
\* the tokens of raw selections: table name, keywords and arguments, in order
SelectionsTokens(ss) ==
    IF ss = <<>>
    THEN <<>>
    ELSE <<Head(ss).table>> \o SelectorsTokens(Head(ss).selectors)
            \o SelectionsTokens(Tail(ss))

RECURSIVE IsLessDelimiters(_, _)
\* part is full with some of its "," and "/" tokens left out
IsLessDelimiters(full, part) ==
    IF full = <<>>
    THEN part = <<>>
    ELSE \/ part # <<>> /\ Head(part) = Head(full)
            /\ IsLessDelimiters(Tail(full), Tail(part))
         \/ Head(full) \in {<<",">>, <<"/">>} /\ IsLessDelimiters(Tail(full), part)

\* C15: after the top-level parse no token is left unconsumed: the cursor is
\* exhausted and every input token is a consumed delimiter, a table name, a
\* selector keyword or a selector argument.
C15_AllTokensConsumed ==
    pc \in {"parsed", "done", "panicked"} =>
        /\ pos = Len(tokens)
        /\ IsLessDelimiters(tokens, SelectionsTokens(res.val))

C15_Witness ==
    /\ pc = "parsed"
    /\ tokens = << <<"/">>, <<"/">>, <<",">>, <<"/">> >>
    /\ pos = 4
    /\ Len(res.val) = 1

\* C16: the keyword of every raw selector accepted by ParseSelector::parse
\* is neither "/" nor ",", for every token sequence.
C16_KeywordNotDelimiter ==
    pc = "parsed" =>
        \A i \in 1..Len(res.val) : \A j \in 1..Len(res.val[i].selectors) :
            res.val[i].selectors[j].selector \notin {<<",">>, <<"/">>}

\* C17: the table name of every Selection of the top-level parse is neither
\* "/" nor ",", for every token sequence.
C17_TableNotDelimiter ==
    pc = "parsed" =>
        \A i \in 1..Len(res.val) : res.val[i].table \notin {<<",">>, <<"/">>}

(***************************************************************************)
(* Properties of the Punctuated loop (checked under SpecLoop).             *)
(***************************************************************************)
\* the step-by-step run of Punctuated::parse returns what PunctuatedParse does
LoopMatchesParse ==
    (pc = "called" /\ op \in PunctuatedCalls) =>
        res = PunctuatedParse(IF op = "Punctuated<Slash,ParseSelection>"
                              THEN "Slash" ELSE "Comma", ItemOf(op), tokens, pos0)

\* every iteration that stays in the loop moves the clone tt forward
LoopAdvances == [][(pc = "loop" /\ pc' = "loop") => res'.tt > res.tt]_vars

\* C18: Punctuated::parse terminates on every finite token sequence: every
\* loop iteration that parses an item consumes at least one token, so the
\* number of iterations is at most the number of remaining tokens.
C18_LoopProgress ==
    (pc \in {"loop", "called"} /\ op \in PunctuatedCalls) =>
        /\ \A k \in 1..Len(res.ends) :
              /\ res.ends[k] > (IF k = 1 THEN pos0 ELSE res.ends[k - 1])
              /\ res.ends[k] <= Len(tokens)
        /\ Len(res.ends) <= Len(tokens) - pos0
        /\ pc = "loop" => (res.tt <= Len(tokens) /\ Len(res.inner) = Len(res.ends))

C18_Witness ==
    /\ pc = "called"
    /\ op = "Punctuated<Slash,ParseSelection>"
    /\ tokens = << <<"a", "_", "1">>, <<"/">>, <<",">> >>
    /\ pos0 = 0
    /\ res.ends = <<1, 3>>
    /\ pos = 3

\* ---- lex keeps every character ----

RECURSIVE PerArgument(_)
\* the token lists of the arguments taken one at a time, in argument order
PerArgument(input) ==
    IF input = <<>> THEN <<>> ELSE lex(<<Head(input)>>) \o PerArgument(Tail(input))

\* C19: lex loses and duplicates no character: the tokens lexed from one
\* argument, concatenated in order, give back that argument, and the tokens
\* of an argument list are the per-argument token lists concatenated in
\* argument order, so no token spans two arguments.
C19_NoCharacterLost ==
    pc = "lexed" =>
        /\ \A n \in 1..Len(args) : Flatten(lex(<<args[n]>>)) = args[n]
        /\ tokens = PerArgument(args)
        /\ Flatten(tokens) = Flatten(args)

C19_Witness ==
    /\ pc = "lexed"
    /\ args = << <<"a", ",">>, <<"/", "é">> >>
    /\ tokens = << <<"a">>, <<",">>, <<"/">>, <<"é">> >>

====
